---- MODULE Spec2Model ----
(***************************************************************************)
(* Model of the scheduler-service engine: the Job / JobRun store, the     *)
(* due-job poller (poll_due_jobs), the execution task (execute_job_task)   *)
(* with its retry handling and its try / except structure, the create,     *)
(* update, delete and run-now API operations, the schedule evaluator       *)
(* (calculate_next_run) and the RetryPolicy class.  Time is a bounded      *)
(* integer clock; every stored timestamp is a clock value in UTC and NULL  *)
(* stands for SQL NULL / None.  Spec, SpecStatus, SpecPayload,             *)
(* SpecInterval, SpecAttempts, SpecOneTime, SpecBound and SpecApi run the  *)
(* engine, each on its own deployments, on a storage that never fails;     *)
(* SpecFault and SpecPollFault let storage statements raise; SpecSchedule  *)
(* and SpecRetry exercise the two pure components; SpecExecutor steps the  *)
(* code and shell executors through their handling of the script file.     *)
(***************************************************************************)
EXTENDS Integers, FiniteSets, Sequences, TLC

\* ---------------------------------------------------------------- bounds
MaxTime == 2
MaxJobs == 2
MaxRuns == 3
MaxCount == 4
MaxCfg == 3
MaxFaults == 2
MaxPeriod == 3
MaxOffset == 1

NumPollers == 2
NumWorkers == 2

Pollers == 1..NumPollers
Workers == 1..NumWorkers

JobIds == 1..MaxJobs
RunIds == 1..MaxRuns

\* ------------------------------------------------------ values and helpers
NULL == -1

NoJob == [status |-> "absent"]
NoRun == [status |-> "absent"]
NoTask == [run_id |-> 0]
NoLogs == [text |-> "None"]

EmptyDict == [k \in {} |-> 0]

\* dict.get(key, default)
Get(d, k, default) == IF k \in DOMAIN d THEN d[k] ELSE default

\* truthiness of a dict: the empty mapping is falsy
Truthy(d) == DOMAIN d # {}

RECURSIVE Pow(_, _)
Pow(b, e) == IF e = 0 THEN 1 ELSE b * Pow(b, e - 1)

\* ------------------------------------------------------------ RetryPolicy
DefaultMaxRetries == 3
DefaultRetryDelay == 60
DefaultBackoffFactor == 2

\* RetryPolicy.__init__: the three attributes read from the policy mapping
RetryPolicy(cfg) ==
    [max_retries    |-> Get(cfg, "max_retries", DefaultMaxRetries),
     retry_delay    |-> Get(cfg, "retry_delay", DefaultRetryDelay),
     backoff_factor |-> Get(cfg, "backoff_factor", DefaultBackoffFactor)]

should_retry_inclusive(cfg, current_retry_count) ==
    current_retry_count <= RetryPolicy(cfg).max_retries

should_retry(cfg, current_retry_count) ==
    current_retry_count < RetryPolicy(cfg).max_retries

get_retry_delay_linear(cfg, current_retry_count) ==
    RetryPolicy(cfg).retry_delay
        * (RetryPolicy(cfg).backoff_factor * current_retry_count)

get_retry_delay_flat(cfg, current_retry_count) ==
    RetryPolicy(cfg).retry_delay * RetryPolicy(cfg).backoff_factor

get_retry_delay(cfg, current_retry_count) ==
    RetryPolicy(cfg).retry_delay
        * Pow(RetryPolicy(cfg).backoff_factor, current_retry_count)

\* ------------------------------------------ try / except of the two tasks
\* the statements of execute_job_task and poll_due_jobs that raise
TaskSites == {"load_run", "load_job", "commit_running", "dispatch",
              "commit_success", "commit_failed", "log_permanent", "retry"}
PollSites == {"scan", "flush", "commit", "log_job_error"}

CatchingClause_no_inner_try(site) ==
    CASE site \in {"load_run", "load_job", "commit_running", "dispatch",
                   "commit_success"} -> "except Exception as e"
      [] site \in {"commit_failed", "log_permanent", "retry"} -> "none"
      [] site \in {"scan", "log_job_error"} -> "except Exception as e"
      [] site \in {"flush", "commit"} -> "except Exception as job_error"

\* the except clause that catches an exception raised by the statement:
\* the body of execute_job_task's try is under "except Exception as e", the
\* body of that handler under "except Exception as commit_error"; the scan
\* of poll_due_jobs is under its "except Exception as e", the body of its
\* loop under "except Exception as job_error", and the body of that handler
\* (its first statement logs job.id) under the outer clause again
CatchingClause(site) ==
    CASE site \in {"load_run", "load_job", "commit_running", "dispatch",
                   "commit_success"} -> "except Exception as e"
      [] site \in {"commit_failed", "log_permanent", "retry"} ->
            "except Exception as commit_error"
      [] site \in {"scan", "log_job_error"} -> "except Exception as e"
      [] site \in {"flush", "commit"} -> "except Exception as job_error"

\* the invocations that exceptions raised at these statements leave
Leaves(task, sites) ==
    IF \E site \in sites : CatchingClause(site) = "none" THEN {task} ELSE {}

\* ------------------------------------------ retry handling of the task
\* the inline condition of execute_job_task's failure handler
\* (job is known to exist where this is evaluated)
TaskRetryWanted(policy, retry_count) ==
    /\ Truthy(policy)
    /\ retry_count <= Get(policy, "max_retries", 3)

\* the inline countdown of execute_job_task's failure handler
TaskCountdown(policy, retry_count) ==
    Pow(2, retry_count) * Get(policy, "base_delay", 60)

\* @celery_app.task(bind=True, max_retries=3)
TaskMaxRetries == 3

CeleryRetryAllowed_unlimited(request_retries) == TRUE

\* Task.retry(): the message is re-sent unless request.retries + 1 exceeds
\* the task's max_retries
CeleryRetryAllowed(request_retries) == request_retries + 1 <= TaskMaxRetries

\* ------------------------------------------------------ ScheduleEvaluator
\* pytz.timezone(name): a zone with its offset from UTC, or an unknown name
Zone(o)     == [known |-> TRUE, utcoffset |-> o]
UTC         == Zone(0)
UnknownZone == [known |-> FALSE, utcoffset |-> 0]

\* an aware datetime: its wall-clock reading and its offset from UTC
Aware(w, o) == [wall |-> w, utcoffset |-> o]

\* the instant an aware datetime denotes: what <= compares
Timestamp(dt) == dt.wall - dt.utcoffset

\* datetime.now(tz) when the clock reads t (UTC)
now_in(tz, t) == Aware(t + tz.utcoffset, tz.utcoffset)

\* tz.localize(naive) and aware.astimezone(tz)
localize(w, tz) == Aware(w, tz.utcoffset)
astimezone(dt, tz) == Aware(Timestamp(dt) + tz.utcoffset, tz.utcoffset)

\* dt.astimezone(pytz.UTC).replace(tzinfo=None)
utc_naive(dt) == astimezone(dt, UTC).wall

\* schedule expressions, by the class the evaluator puts them in: "<n>s",
\* an ISO datetime without or with an offset, "*/<k>" of the clock's unit,
\* and a string of none of these forms
Interval(n)     == [kind |-> "interval", n |-> n]
Instant(t)      == [kind |-> "datetime", n |-> t]
InstantAt(t, o) == [kind |-> "datetime", n |-> t, utcoffset |-> o]
Cron(k)         == [kind |-> "cron", n |-> k]
Invalid         == [kind |-> "invalid", n |-> 0]

\* croniter(expr, now).get_next(datetime): the first firing of the
\* expression after now, on now's wall clock
get_next_inclusive(expr, now_dt) ==
    Aware(((now_dt.wall + expr.n - 1) \div expr.n) * expr.n, now_dt.utcoffset)

get_next(expr, now_dt) ==
    Aware(((now_dt.wall \div expr.n) + 1) * expr.n, now_dt.utcoffset)

_calculate_cron_next_run(expr, now_dt, tz) ==
    utc_naive(astimezone(get_next(expr, now_dt), tz))

\* datetime.fromisoformat(expr), then localize / astimezone
scheduled_time(expr, tz) ==
    IF "utcoffset" \in DOMAIN expr
    THEN astimezone(Aware(expr.n, expr.utcoffset), tz)
    ELSE localize(expr.n, tz)

_calculate_datetime_next_run_late(expr, now_dt, tz) ==
    IF Timestamp(scheduled_time(expr, tz)) < Timestamp(now_dt)
    THEN NULL
    ELSE utc_naive(scheduled_time(expr, tz))

_calculate_datetime_next_run(expr, now_dt, tz) ==
    IF Timestamp(scheduled_time(expr, tz)) <= Timestamp(now_dt)
    THEN NULL
    ELSE utc_naive(scheduled_time(expr, tz))

\* "<value><unit>" with unit one of s, m, h, d ("<n>s" is Interval(n))
IntervalOf(value, unit) == [kind |-> "interval", n |-> value, unit |-> unit]

Units == {"s", "m", "h", "d"}

UnitSeconds_hour_as_minute(unit) ==
    CASE unit = "s" -> 1
      [] unit = "m" -> 60
      [] unit = "h" -> 60
      [] unit = "d" -> 86400

\* the seconds of one unit
UnitSeconds(unit) ==
    CASE unit = "s" -> 1
      [] unit = "m" -> 60
      [] unit = "h" -> 3600
      [] unit = "d" -> 86400

interval_seconds(expr) == expr.n * UnitSeconds(Get(expr, "unit", "s"))

\* datetime.max on the model's clock: a datetime holds no later reading, and
\* arithmetic that would pass it raises OverflowError
DatetimeMax == 1000000

\* now + timedelta(seconds=interval_seconds) keeps now's offset; the sum and
\* its conversion to UTC raise when they pass datetime.max, and the
\* function's except clause turns that into None
_calculate_interval_next_run(expr, now_dt, tz) ==
    LET next_run == Aware(now_dt.wall + interval_seconds(expr),
                          now_dt.utcoffset)
    IN IF next_run.wall > DatetimeMax \/ utc_naive(next_run) > DatetimeMax
       THEN NULL
       ELSE utc_naive(next_run)

\* calculate_next_run(schedule_expr, timezone) when the clock reads t
calculate_next_run(expr, timezone, t) ==
    IF ~timezone.known
    THEN NULL
    ELSE CASE expr.kind = "cron" ->
                _calculate_cron_next_run(expr, now_in(timezone, t), timezone)
           [] expr.kind = "datetime" ->
                _calculate_datetime_next_run(expr, now_in(timezone, t), timezone)
           [] expr.kind = "interval" ->
                _calculate_interval_next_run(expr, now_in(timezone, t), timezone)
           [] OTHER -> NULL

\* -------------------------------------------------------------- JobExecutor
DefaultPayload == [type |-> "default", code |-> "none"]
FailingScript  == [type |-> "python_code", code |-> "exit1"]
NoTypePayload  == [data |-> "x"]
UnknownTypePayload == [type |-> "report", data |-> "x"]
MissingCode    == [type |-> "python_code"]
MissingScript  == [type |-> "shell_script"]

\* what a handler gives back: its result_log, or the exception it raised
Returned(log) == [raised |-> FALSE, result_log |-> log]
Raised(exc)   == [raised |-> TRUE, error |-> exc]

_execute_python_code_job(payload) ==
    IF Get(payload, "code", "none") = "none"
    THEN Raised("ValueError: No Python code provided in payload")
    ELSE IF payload.code = "exit0"
    THEN Returned([text |-> "Python code executed successfully."])
    ELSE Raised("Exception: Python code execution failed")

_execute_shell_script_job(payload) ==
    IF Get(payload, "script", "none") = "none"
    THEN Raised("ValueError: No shell script provided in payload")
    ELSE IF payload.script = "exit0"
    THEN Returned([text |-> "Shell script executed successfully."])
    ELSE Raised("Exception: Shell script execution failed")

_execute_default_job(payload) ==
    Returned([text |-> "Default job executed with data: ", data |-> payload])

Dispatch_strict(payload) ==
    CASE Get(payload, "type", "default") = "python_code" ->
            _execute_python_code_job(payload)
      [] Get(payload, "type", "default") = "shell_script" ->
            _execute_shell_script_job(payload)
      [] Get(payload, "type", "default") = "default" ->
            _execute_default_job(payload)
      [] OTHER -> Raised("ValueError: unknown job type")

\* the strategy dispatch of execute_job_task on payload.get("type", "default")
Dispatch(payload) ==
    CASE Get(payload, "type", "default") = "python_code" ->
            _execute_python_code_job(payload)
      [] Get(payload, "type", "default") = "shell_script" ->
            _execute_shell_script_job(payload)
      [] OTHER -> _execute_default_job(payload)

\* outcome of the dispatch: "ok" or "error" (an exception)
ExecuteOutcome(payload) == IF Dispatch(payload).raised THEN "error" ELSE "ok"

\* ------------------------------------------------------------ input sets
Policy1 == [max_retries |-> 1, base_delay |-> 1, retry_delay |-> 1,
            backoff_factor |-> 3]

\* settings.api_key, and what a request carries in X-API-Key
ApiKey == "your-secret-api-key-here"
ApiKeys == {ApiKey, "wrong-key", "absent"}

\* a JobCreate request
JobCreate(expr, payload, policy, status) ==
    [schedule_expr |-> expr, timezone |-> UTC, payload |-> payload,
     retry_policy |-> policy, status |-> status]

\* the requests JobService.create_job is given where the claims are about
\* the poller and the retry handling
CreateInputs ==
    {JobCreate(Cron(1),     DefaultPayload, EmptyDict, "active"),
     JobCreate(Cron(1),     FailingScript,  Policy1,   "active"),
     JobCreate(Instant(1),  FailingScript,  EmptyDict, "active"),
     JobCreate(Interval(1), DefaultPayload, EmptyDict, "active"),
     JobCreate(Invalid,     DefaultPayload, EmptyDict, "active")}

\* ... where they are about which jobs a poll cycle takes
StatusInputs ==
    {JobCreate(Cron(1),     DefaultPayload, EmptyDict, "active"),
     JobCreate(Instant(1),  FailingScript,  EmptyDict, "active"),
     JobCreate(Cron(1),     DefaultPayload, EmptyDict, "paused")}

\* ... where they are about what a payload makes of a run
PayloadInputs ==
    {JobCreate(Cron(2), MissingCode,        Policy1, "active"),
     JobCreate(Cron(2), MissingScript,      Policy1, "active"),
     JobCreate(Cron(2), NoTypePayload,      Policy1, "active"),
     JobCreate(Cron(2), UnknownTypePayload, Policy1, "active")}

\* the requests JobService.update_job is given
UpdateInputs == {[schedule_expr |-> Invalid]}

\* ... where the claims are about interval schedules: an interval string
\* reaches a job only through update_job
IntervalEdits == {[schedule_expr |-> Interval(1)],
                  [schedule_expr |-> Interval(2)]}

IntervalInputs ==
    {JobCreate(Cron(1), DefaultPayload, EmptyDict, "active"),
     JobCreate(Cron(1), FailingScript,  EmptyDict, "active")}

\* ------------------------------------------------------------------ state
VARIABLES
    now,        \* the wall clock (UTC)
    jobs,       \* jobs table: id -> Job row or NoJob
    runs,       \* job_runs table: id -> JobRun row or NoRun
    nextJobId,  \* jobs.id sequence
    nextRunId,  \* job_runs.id sequence
    queue,      \* messages in the broker: execute_job_task requests
    ppc,        \* poller: "idle" or "loop"
    now_utc,    \* poller: the instant its cycle started
    batch,      \* poller: the due_jobs still to process in this cycle
    cur,        \* poller: the JobRun flushed but not yet committed (0: none)
    locks,      \* poller: the jobs rows its open transaction holds locked
    wpc,        \* worker: "idle" or "exec"
    wtask,      \* worker: the task it is executing
    deploy,     \* the deployment explored: how many beat instances, workers,
                \* jobs, runs and run-now requests this behaviour has
    answer,     \* the last create request and the answer it got
    req,        \* the run-now request in progress, or the last one's answer
    spent,      \* how many updates and storage faults this behaviour has had
    escaped,    \* the task invocations an exception has propagated out of
    se_in,      \* calculate_next_run under test: its schedule_expr, timezone
    se_out,     \* calculate_next_run under test: what it returned, and when
    rp_cfg,     \* RetryPolicy under test: its policy_config
    rp_count,   \* RetryPolicy under test: the next current_retry_count
    rp_out,     \* RetryPolicy under test: what should_retry and
                \* get_retry_delay returned for the counts 0, 1, ... so far
    ex          \* the code / shell executor under test: where it is in its
                \* call, and the script files in the temporary directory

vars == <<now, jobs, runs, nextJobId, nextRunId, queue, ppc, now_utc,
          batch, cur, locks, wpc, wtask, deploy, answer, req,
          spent, escaped, se_in, se_out, rp_cfg, rp_count, rp_out, ex>>

NoOut == [retry |-> <<>>, delay |-> <<>>]

\* the deployments explored; no behaviour leaves its deployment
Deployments ==
    {[pollers |-> NumPollers, workers |-> 1, jobs |-> MaxJobs,
      runs |-> MaxRuns, run_now |-> 0, deletes |-> 0, updates |-> 0,
      faults |-> 0, inputs |-> CreateInputs,
      edits |-> UpdateInputs, keys |-> {ApiKey}],
     [pollers |-> 1, workers |-> NumWorkers, jobs |-> 1,
      runs |-> MaxRuns - 1, run_now |-> MaxRuns - 1, deletes |-> 1,
      updates |-> 1, faults |-> 0, inputs |-> CreateInputs,
      edits |-> UpdateInputs, keys |-> {ApiKey}]}

\* the deployment explored where the claims are about which jobs a poll
\* cycle takes
StatusDeployments ==
    {[pollers |-> 1, workers |-> 1, jobs |-> MaxJobs,
      runs |-> MaxRuns - 1, run_now |-> 1, deletes |-> 1, updates |-> 1,
      faults |-> 0, inputs |-> StatusInputs,
      edits |-> UpdateInputs, keys |-> {ApiKey}]}

\* the deployment explored where the claims are about payloads
PayloadDeployments ==
    {[pollers |-> 1, workers |-> 1, jobs |-> 1,
      runs |-> MaxRuns - 1, run_now |-> 1, deletes |-> 1, updates |-> 1,
      faults |-> 0, inputs |-> PayloadInputs,
      edits |-> UpdateInputs, keys |-> {ApiKey}]}

NoReq == [state |-> "none"]
\* no call of an executor yet, the temporary directory empty
NoEx == [pc |-> "idle", payload |-> DefaultPayload, temp_file |-> 0,
         files |-> {}, calls |-> 0, outcome |-> "none"]
NoAnswer == [op |-> "none"]
NoSpent == [updates |-> 0, faults |-> 0]
NoCall == [schedule_expr |-> Invalid, timezone |-> UTC]

InitStore ==
    /\ now = 0
    /\ jobs = [j \in JobIds |-> NoJob]
    /\ runs = [r \in RunIds |-> NoRun]
    /\ nextJobId = 1
    /\ nextRunId = 1
    /\ queue = {}
    /\ ppc = [p \in Pollers |-> "idle"]
    /\ now_utc = [p \in Pollers |-> 0]
    /\ batch = [p \in Pollers |-> {}]
    /\ cur = [p \in Pollers |-> 0]
    /\ locks = [p \in Pollers |-> {}]
    /\ wpc = [w \in Workers |-> "idle"]
    /\ wtask = [w \in Workers |-> NoTask]
    /\ req = NoReq
    /\ answer = NoAnswer
    /\ ex = NoEx

Init ==
    /\ InitStore
    /\ deploy \in Deployments
    /\ spent = NoSpent
    /\ escaped = {}
    /\ se_in = NoCall
    /\ se_out = <<>>
    /\ rp_cfg = EmptyDict
    /\ rp_count = 0
    /\ rp_out = NoOut

JobExists(j) == jobs[j].status # "absent"
RunExists(r) == runs[r].status # "absent"
Visible(r) == RunExists(r) /\ runs[r].committed
LockedByOther(j, p) == \E q \in Pollers \ {p} : j \in locks[q]
Locked(j) == \E q \in Pollers : j \in locks[q]

\* ------------------------------------------------------------------ clock
Tick ==
    /\ now < MaxTime
    /\ now' = now + 1
    /\ UNCHANGED <<jobs, runs, nextJobId, nextRunId, queue, ppc, now_utc,
                   batch, cur, locks, wpc, wtask, deploy, answer, req,
                   spent, escaped, se_in, se_out, rp_cfg, rp_count, rp_out,
                   ex>>

\* -------------------------------------------------------------- API layer
CreateAccepts_anything(expr) == TRUE

\* the validation at the head of JobService.create_job: a cron expression,
\* or a string datetime.fromisoformat parses
CreateAccepts(expr) == expr.kind = "cron" \/ expr.kind = "datetime"

\* Job(schedule_expr=..., timezone=..., payload=..., retry_policy=...,
\* status=job_data.status or "active", next_run=next_run)
NewJob(job_data, t) ==
    [status        |-> job_data.status,
     schedule_expr |-> job_data.schedule_expr,
     timezone      |-> job_data.timezone,
     payload       |-> job_data.payload,
     retry_policy  |-> job_data.retry_policy,
     next_run      |-> calculate_next_run(job_data.schedule_expr,
                                          job_data.timezone, t),
     last_run      |-> NULL]

\* POST /jobs with its X-API-Key header and body, and the answer
CreateAnswer(job_data, api_key, code, j) ==
    [op |-> "create_job", api_key |-> api_key,
     schedule_expr |-> job_data.schedule_expr, status_code |-> code,
     job_id |-> j]

\* the create_job route and JobService.create_job: no dependency of the
\* route reads the X-API-Key header
CreateJob(job_data, api_key) ==
    /\ nextJobId <= deploy.jobs
    /\ job_data \in deploy.inputs
    /\ api_key \in deploy.keys
    /\ IF CreateAccepts(job_data.schedule_expr)
       THEN /\ jobs' = [jobs EXCEPT ![nextJobId] = NewJob(job_data, now)]
            /\ nextJobId' = nextJobId + 1
            /\ answer' = CreateAnswer(job_data, api_key, 201, nextJobId)
       ELSE /\ answer' = CreateAnswer(job_data, api_key, 400, 0)
            /\ UNCHANGED <<jobs, nextJobId>>
    /\ UNCHANGED <<now, runs, nextRunId, queue, ppc, now_utc, batch, cur,
                   locks, wpc, wtask, deploy, req, spent, escaped, se_in,
                   se_out, rp_cfg, rp_count, rp_out, ex>>

\* JobService.update_job: the fields the request carries are set, next_run
\* is recalculated when schedule_expr or timezone is among them; the UPDATE
\* waits for a transaction that holds the job's row
UpdateJob(j, update_data) ==
    /\ spent.updates < deploy.updates
    /\ update_data \in deploy.edits
    /\ JobExists(j)
    /\ ~Locked(j)
    /\ LET j1 == IF "schedule_expr" \in DOMAIN update_data
                 THEN [jobs[j] EXCEPT
                         !.schedule_expr = update_data.schedule_expr,
                         !.next_run = calculate_next_run(
                              update_data.schedule_expr, jobs[j].timezone, now)]
                 ELSE jobs[j]
           j2 == IF "timezone" \in DOMAIN update_data
                 THEN [j1 EXCEPT
                         !.timezone = update_data.timezone,
                         !.next_run = calculate_next_run(
                              j1.schedule_expr, update_data.timezone, now)]
                 ELSE j1
           j3 == IF "payload" \in DOMAIN update_data
                 THEN [j2 EXCEPT !.payload = update_data.payload] ELSE j2
           j4 == IF "status" \in DOMAIN update_data
                 THEN [j3 EXCEPT !.status = update_data.status] ELSE j3
           j5 == IF "retry_policy" \in DOMAIN update_data
                 THEN [j4 EXCEPT !.retry_policy = update_data.retry_policy]
                 ELSE j4
       IN jobs' = [jobs EXCEPT ![j] = j5]
    /\ spent' = [spent EXCEPT !.updates = @ + 1]
    /\ UNCHANGED <<now, runs, nextJobId, nextRunId, queue, ppc, now_utc,
                   batch, cur, locks, wpc, wtask, deploy, answer, req, escaped, se_in,
                   se_out, rp_cfg, rp_count, rp_out, ex>>

\* JobRun(job_id=..., status="pending", created_at=..., retry_count=0), added
\* and flushed but not yet committed
NewRun(j, origin, trigger) ==
    [status      |-> "pending",
     job_id      |-> j,
     retry_count |-> 0,
     started_at  |-> NULL,
     finished_at |-> NULL,
     error       |-> FALSE,
     logs        |-> NoLogs,
     committed   |-> FALSE,
     origin      |-> origin,
     trigger     |-> trigger]

\* execute_job_task.delay(job.id, run.id, job.payload or {})
NewTask(j, r, payload) ==
    [job_id |-> j, run_id |-> r, payload |-> payload, retries |-> 0, eta |-> 0]

\* the answer of a finished run-now request
Answered(j, code) == [state |-> "answered", job_id |-> j, status_code |-> code]

\* JobService.run_job_immediately: job = await self.get_job(job_id); 404
\* when there is no such row, else the request holds the row as loaded
RunNowGet(j) ==
    /\ req.state \in {"none", "answered"}
    /\ Cardinality({r \in RunIds : RunExists(r) /\ runs[r].origin = "api"})
          < deploy.run_now
    /\ req' = IF JobExists(j)
              THEN [state |-> "loaded", job_id |-> j, job |-> jobs[j]]
              ELSE Answered(j, 404)
    /\ UNCHANGED <<now, jobs, runs, nextJobId, nextRunId, queue, ppc, now_utc,
                   batch, cur, locks, wpc, wtask, deploy, answer, spent, escaped,
                   se_in, se_out, rp_cfg, rp_count, rp_out, ex>>

RunNowAccepts_any_status(job) == TRUE

\* the status check of run_job_immediately, on the row as loaded
RunNowAccepts(job) == job.status = "active"

\* JobService.run_job_immediately from the status check to the enqueue: 400
\* for a job loaded non-active; else the run is flushed (the insert fails on
\* its foreign key when the job's row has gone meanwhile, and waits for a
\* transaction that holds the row), the task is sent with the payload as
\* loaded, the transaction is still open
RunNowEnqueue ==
    /\ req.state = "loaded"
    /\ IF ~RunNowAccepts(req.job)
       THEN /\ req' = Answered(req.job_id, 400)
            /\ UNCHANGED <<runs, nextRunId, queue>>
       ELSE IF ~JobExists(req.job_id)
       THEN /\ req' = Answered(req.job_id, 500)
            /\ UNCHANGED <<runs, nextRunId, queue>>
       ELSE /\ nextRunId <= deploy.runs
            /\ ~Locked(req.job_id)
            /\ runs' = [runs EXCEPT ![nextRunId] =
                           NewRun(req.job_id, "api", NULL)]
            /\ nextRunId' = nextRunId + 1
            /\ queue' = queue \cup
                  {NewTask(req.job_id, nextRunId, req.job.payload)}
            /\ req' = [state |-> "flushed", job_id |-> req.job_id,
                       run_id |-> nextRunId]
    /\ UNCHANGED <<now, jobs, nextJobId, ppc, now_utc, batch, cur, locks,
                   wpc, wtask, deploy, answer, spent, escaped, se_in, se_out, rp_cfg,
                   rp_count, rp_out, ex>>

\* JobService.run_job_immediately: await self.db.commit(), and the 202
RunNowCommit(r) ==
    /\ req.state = "flushed"
    /\ req.run_id = r
    /\ RunExists(r)
    /\ runs[r].origin = "api"
    /\ ~runs[r].committed
    /\ runs' = [runs EXCEPT ![r].committed = TRUE]
    /\ req' = Answered(req.job_id, 202)
    /\ UNCHANGED <<now, jobs, nextJobId, nextRunId, queue, ppc, now_utc,
                   batch, cur, locks, wpc, wtask, deploy, answer, spent, escaped,
                   se_in, se_out, rp_cfg, rp_count, rp_out, ex>>

\* JobService.delete_job: the job and, by the ORM cascade, all its runs go in
\* one commit.  The foreign key job_runs.job_id makes the delete wait for a
\* transaction that holds the job's row and fail when a run it did not load
\* has been inserted meanwhile, so it takes effect only when neither is so.
DeleteJob(j) ==
    /\ nextJobId - 1 - Cardinality({i \in JobIds : JobExists(i)})
          < deploy.deletes
    /\ JobExists(j)
    /\ ~Locked(j)
    /\ \A r \in RunIds : RunExists(r) /\ runs[r].job_id = j => runs[r].committed
    /\ jobs' = [jobs EXCEPT ![j] = NoJob]
    /\ runs' = [r \in RunIds |->
                  IF RunExists(r) /\ runs[r].job_id = j THEN NoRun ELSE runs[r]]
    /\ UNCHANGED <<now, nextJobId, nextRunId, queue, ppc, now_utc, batch,
                   cur, locks, wpc, wtask, deploy, answer, req,
                   spent, escaped, se_in, se_out, rp_cfg, rp_count, rp_out,
                   ex>>

\* ------------------------------------------------------------- DuePoller
\* the due-scan of poll_due_jobs: active, next_run <= now_utc, and the row
\* not locked by another transaction (FOR UPDATE SKIP LOCKED)
DueJobs_any_status(p) ==
    {j \in JobIds : /\ JobExists(j)
                    /\ jobs[j].next_run # NULL
                    /\ jobs[j].next_run <= now
                    /\ ~LockedByOther(j, p)}

DueJobs(p) ==
    {j \in JobIds : /\ JobExists(j)
                    /\ jobs[j].status = "active"
                    /\ jobs[j].next_run # NULL
                    /\ jobs[j].next_run <= now
                    /\ ~LockedByOther(j, p)}

\* poll_due_jobs up to the start of its loop
PollScan(p) ==
    /\ p <= deploy.pollers
    /\ ppc[p] = "idle"
    /\ IF DueJobs(p) = {}
       THEN UNCHANGED <<ppc, now_utc, batch, locks>>
       ELSE /\ ppc' = [ppc EXCEPT ![p] = "loop"]
            /\ now_utc' = [now_utc EXCEPT ![p] = now]
            /\ batch' = [batch EXCEPT ![p] =
                  {[job |-> j, due |-> jobs[j].next_run] : j \in DueJobs(p)}]
            /\ locks' = [locks EXCEPT ![p] = DueJobs(p)]
    /\ UNCHANGED <<now, jobs, runs, nextJobId, nextRunId, queue, cur, wpc,
                   wtask, deploy, answer, req,
                   spent, escaped, se_in, se_out, rp_cfg, rp_count, rp_out,
                   ex>>

\* the loop body of poll_due_jobs up to the enqueue: the run is flushed (the
\* insert takes a key lock on the job's row, so it waits for another
\* transaction's row lock) and the task is sent
PollEnqueue(p, b) ==
    /\ ppc[p] = "loop"
    /\ cur[p] = 0
    /\ b \in batch[p]
    /\ IF ~JobExists(b.job)
       THEN \* the row is gone: reading job.id raises, in the loop body
            \* and again in the first statement of the loop's handler, so
            \* the outer clause rolls back and the cycle ends
            /\ batch' = [batch EXCEPT ![p] = {}]
            /\ ppc' = [ppc EXCEPT ![p] = "idle"]
            /\ now_utc' = [now_utc EXCEPT ![p] = 0]
            /\ locks' = [locks EXCEPT ![p] = {}]
            /\ UNCHANGED <<runs, nextRunId, queue, cur>>
       ELSE /\ nextRunId <= deploy.runs
            /\ ~LockedByOther(b.job, p)
            /\ runs' = [runs EXCEPT ![nextRunId] =
                          NewRun(b.job, "poller", b.due)]
            /\ nextRunId' = nextRunId + 1
            /\ queue' = queue \cup
                          {NewTask(b.job, nextRunId, jobs[b.job].payload)}
            /\ cur' = [cur EXCEPT ![p] = nextRunId]
            /\ locks' = [locks EXCEPT ![p] = @ \cup {b.job}]
            /\ UNCHANGED <<ppc, now_utc, batch>>
    /\ UNCHANGED <<now, jobs, nextJobId, wpc, wtask,
                   deploy, answer, req,
                   spent, escaped, se_in, se_out, rp_cfg, rp_count, rp_out,
                   ex>>

\* the Job row as the loop body leaves it
PollJobUpdate(job, scan_time, t) ==
    LET nr == calculate_next_run(job.schedule_expr, job.timezone, t)
    IN [job EXCEPT !.last_run = scan_time,
                   !.next_run = nr,
                   !.status = IF nr = NULL THEN "completed" ELSE @]

\* the rest of the loop body: last_run / next_run / status and the per-job
\* commit, which ends the transaction and so releases every row lock the
\* cycle holds
PollCommit(p) ==
    /\ ppc[p] = "loop"
    /\ cur[p] # 0
    /\ LET r == cur[p]
           j == runs[r].job_id
           rest == {b \in batch[p] : b.job # j}
       IN /\ jobs' = [jobs EXCEPT ![j] = PollJobUpdate(@, now_utc[p], now)]
          /\ runs' = [runs EXCEPT ![r].committed = TRUE]
          /\ batch' = [batch EXCEPT ![p] = rest]
          /\ ppc' = [ppc EXCEPT ![p] = IF rest = {} THEN "idle" ELSE "loop"]
          /\ now_utc' = [now_utc EXCEPT ![p] = IF rest = {} THEN 0 ELSE @]
    /\ cur' = [cur EXCEPT ![p] = 0]
    /\ locks' = [locks EXCEPT ![p] = {}]
    /\ UNCHANGED <<now, nextJobId, nextRunId, queue, wpc, wtask,
                   deploy, answer, req,
                   spent, escaped, se_in, se_out, rp_cfg, rp_count, rp_out,
                   ex>>

\* ------------------------------------------------- execute_job_task (worker)
\* the JobRun row after "job_run.status = 'running'; started_at = utcnow()"
RunStarted(run, t) == [run EXCEPT !.status = "running", !.started_at = t]

\* the JobRun row after the "Job not found" branch
RunJobMissing(run) == [run EXCEPT !.status = "failed", !.error = TRUE]

\* the JobRun row after the success branch
RunSucceeded(run, result_log, t) ==
    [run EXCEPT !.status = "success", !.logs = result_log, !.finished_at = t]

RunFailedRequeued(run, t) ==
    [run EXCEPT !.status = "pending", !.error = TRUE, !.finished_at = t,
                !.retry_count = @ + 1]

RunFailed_count_kept(run, t) ==
    [run EXCEPT !.status = "failed", !.error = TRUE, !.finished_at = t]

\* the JobRun row after the failure handler's commit
RunFailed(run, t) ==
    [run EXCEPT !.status = "failed", !.error = TRUE, !.finished_at = t,
                !.retry_count = @ + 1]

JobAfterSuccess_anchored(job, run, t) ==
    [job EXCEPT !.last_run = run.started_at,
                !.next_run = calculate_next_run(job.schedule_expr,
                                                job.timezone, run.started_at)]

JobAfterSuccess_completing(job, run, t) ==
    LET nr == calculate_next_run(job.schedule_expr, job.timezone, t)
    IN [job EXCEPT !.last_run = run.started_at,
                   !.next_run = nr,
                   !.status = IF nr = NULL THEN "completed" ELSE @]

\* the Job row after the success branch
JobAfterSuccess(job, run, t) ==
    [job EXCEPT !.last_run = run.started_at,
                !.next_run = calculate_next_run(job.schedule_expr, job.timezone, t)]

RetryTask_new_run(task, countdown, t) ==
    [task EXCEPT !.retries = @ + 1, !.eta = t + countdown,
                 !.run_id = @ + 1]

\* the message self.retry(exc=e, countdown=countdown) sends
RetryTask(task, countdown, t) ==
    [task EXCEPT !.retries = @ + 1, !.eta = t + countdown]

\* a worker takes a task whose eta has passed and runs execute_job_task up to
\* the commit of status running
WorkerStart(w, task) ==
    /\ w <= deploy.workers
    /\ wpc[w] = "idle"
    /\ task \in queue
    /\ task.eta <= now
    /\ queue' = queue \ {task}
    /\ LET r == task.run_id
       IN IF ~Visible(r)
          THEN UNCHANGED <<runs, wpc, wtask>>
          ELSE IF ~JobExists(task.job_id)
          THEN /\ runs' = [runs EXCEPT ![r] = RunJobMissing(@)]
               /\ UNCHANGED <<wpc, wtask>>
          ELSE /\ runs' = [runs EXCEPT ![r] = RunStarted(@, now)]
               /\ wpc' = [wpc EXCEPT ![w] = "exec"]
               /\ wtask' = [wtask EXCEPT ![w] = task]
    /\ UNCHANGED <<now, jobs, nextJobId, nextRunId, ppc, now_utc, batch,
                   cur, locks, deploy, answer, req,
                   spent, escaped, se_in, se_out, rp_cfg, rp_count, rp_out,
                   ex>>

\* the payload ran without an exception: the success commit (its UPDATE of
\* the job's row waits for a poller's row lock)
WorkerSucceed(w) ==
    /\ wpc[w] = "exec"
    /\ ExecuteOutcome(wtask[w].payload) = "ok"
    /\ LET r == wtask[w].run_id
           j == wtask[w].job_id
       IN IF ~RunExists(r)
          THEN \* the rows were deleted under the task: loading them raises
               \* and the session is rolled back
               UNCHANGED <<runs, jobs>>
          ELSE /\ ~Locked(j)
               /\ runs' = [runs EXCEPT ![r] =
                   RunSucceeded(@, Dispatch(wtask[w].payload).result_log, now)]
               /\ jobs' = [jobs EXCEPT ![j] =
                             JobAfterSuccess(@, runs[r], now)]
    /\ wpc' = [wpc EXCEPT ![w] = "idle"]
    /\ wtask' = [wtask EXCEPT ![w] = NoTask]
    /\ UNCHANGED <<now, nextJobId, nextRunId, queue, ppc, now_utc, batch,
                   cur, locks, deploy, answer, req,
                   spent, escaped, se_in, se_out, rp_cfg, rp_count, rp_out,
                   ex>>

\* the payload raised: the failure commit, then the retry decision; the
\* Retry exception self.retry raises after sending the message is swallowed
\* by the handler's own except clause
WorkerFail(w) ==
    /\ wpc[w] = "exec"
    /\ ExecuteOutcome(wtask[w].payload) = "error"
    /\ LET r == wtask[w].run_id
           j == wtask[w].job_id
       IN IF ~RunExists(r)
          THEN \* the rows were deleted under the task: loading them raises
               \* and the session is rolled back
               /\ escaped' = escaped \cup
                     Leaves("execute_job_task", {"dispatch", "commit_failed"})
               /\ UNCHANGED <<runs, queue>>
          ELSE LET failed == RunFailed(runs[r], now)
               IN /\ runs' = [runs EXCEPT ![r] = failed]
                  /\ IF TaskRetryWanted(jobs[j].retry_policy,
                                        failed.retry_count)
                     THEN escaped' = escaped \cup
                             Leaves("execute_job_task", {"dispatch", "retry"})
                     ELSE escaped' = escaped \cup
                             Leaves("execute_job_task", {"dispatch"})
                  /\ IF /\ TaskRetryWanted(jobs[j].retry_policy,
                                            failed.retry_count)
                        /\ CeleryRetryAllowed(wtask[w].retries)
                     THEN queue' = queue \cup
                            {RetryTask(wtask[w],
                                       TaskCountdown(jobs[j].retry_policy,
                                                     failed.retry_count),
                                       now)}
                     ELSE UNCHANGED queue
    /\ wpc' = [wpc EXCEPT ![w] = "idle"]
    /\ wtask' = [wtask EXCEPT ![w] = NoTask]
    /\ UNCHANGED <<now, jobs, nextJobId, nextRunId, ppc, now_utc, batch,
                   cur, locks, deploy, answer, req,
                   spent, se_in, se_out, rp_cfg, rp_count, rp_out, ex>>

\* ---------------------------------------------------------- specification
Next ==
    \/ Tick
    \/ \E job_data \in deploy.inputs : \E api_key \in deploy.keys :
          CreateJob(job_data, api_key)
    \/ \E j \in JobIds : \E update_data \in deploy.edits :
          UpdateJob(j, update_data)
    \/ \E j \in JobIds : RunNowGet(j)
    \/ RunNowEnqueue
    \/ \E r \in RunIds : RunNowCommit(r)
    \/ \E j \in JobIds : DeleteJob(j)
    \/ \E p \in Pollers : PollScan(p)
    \/ \E p \in Pollers : \E b \in batch[p] : PollEnqueue(p, b)
    \/ \E p \in Pollers : PollCommit(p)
    \/ \E w \in Workers : \E t \in queue : WorkerStart(w, t)
    \/ \E w \in Workers : WorkerSucceed(w)
    \/ \E w \in Workers : WorkerFail(w)

Spec == Init /\ [][Next]_vars

InitStatus ==
    /\ InitStore
    /\ deploy \in StatusDeployments
    /\ spent = NoSpent
    /\ escaped = {}
    /\ se_in = NoCall
    /\ se_out = <<>>
    /\ rp_cfg = EmptyDict
    /\ rp_count = 0
    /\ rp_out = NoOut

SpecStatus == InitStatus /\ [][Next]_vars

InitPayload ==
    /\ InitStore
    /\ deploy \in PayloadDeployments
    /\ spent = NoSpent
    /\ escaped = {}
    /\ se_in = NoCall
    /\ se_out = <<>>
    /\ rp_cfg = EmptyDict
    /\ rp_count = 0
    /\ rp_out = NoOut

SpecPayload == InitPayload /\ [][Next]_vars

\* the deployment explored where the claims are about interval schedules
IntervalDeployments ==
    {[pollers |-> 1, workers |-> NumWorkers, jobs |-> 1,
      runs |-> MaxRuns, run_now |-> 1, deletes |-> 1, updates |-> 1,
      faults |-> 0, inputs |-> IntervalInputs, edits |-> IntervalEdits,
      keys |-> {ApiKey}]}

InitInterval ==
    /\ InitStore
    /\ deploy \in IntervalDeployments
    /\ spent = NoSpent
    /\ escaped = {}
    /\ se_in = NoCall
    /\ se_out = <<>>
    /\ rp_cfg = EmptyDict
    /\ rp_count = 0
    /\ rp_out = NoOut

SpecInterval == InitInterval /\ [][Next]_vars

\* the deployment explored where the claims are about what the API accepts
ApiInputs ==
    {JobCreate(Cron(1),     DefaultPayload, EmptyDict, "active"),
     JobCreate(Instant(2),  FailingScript,  EmptyDict, "active"),
     JobCreate(Interval(1), DefaultPayload, EmptyDict, "active"),
     JobCreate(Invalid,     DefaultPayload, EmptyDict, "active")}

\* one deployment takes the create requests of every kind, with every key,
\* and has no runs; the other runs one job
ApiDeployments ==
    {[pollers |-> 1, workers |-> 1, jobs |-> MaxJobs,
      runs |-> 0, run_now |-> 0, deletes |-> 1, updates |-> 1,
      faults |-> 0, inputs |-> ApiInputs, edits |-> UpdateInputs,
      keys |-> ApiKeys],
     [pollers |-> 1, workers |-> 1, jobs |-> 1,
      runs |-> 1, run_now |-> 1, deletes |-> 1, updates |-> 1,
      faults |-> 0, inputs |-> IntervalInputs, edits |-> UpdateInputs,
      keys |-> {ApiKey}]}

InitApi ==
    /\ InitStore
    /\ deploy \in ApiDeployments
    /\ spent = NoSpent
    /\ escaped = {}
    /\ se_in = NoCall
    /\ se_out = <<>>
    /\ rp_cfg = EmptyDict
    /\ rp_count = 0
    /\ rp_out = NoOut

SpecApi == InitApi /\ [][Next]_vars

\* the deployment explored where the claims are about the attempts of a run
\* and about run-now requests
AttemptDeployments ==
    {[pollers |-> 1, workers |-> 1, jobs |-> 1,
      runs |-> MaxRuns - 1, run_now |-> MaxRuns - 1, deletes |-> 1,
      updates |-> 1, faults |-> 0, inputs |-> CreateInputs,
      edits |-> UpdateInputs, keys |-> {ApiKey}]}

InitAttempts ==
    /\ InitStore
    /\ deploy \in AttemptDeployments
    /\ spent = NoSpent
    /\ escaped = {}
    /\ se_in = NoCall
    /\ se_out = <<>>
    /\ rp_cfg = EmptyDict
    /\ rp_count = 0
    /\ rp_out = NoOut

SpecAttempts == InitAttempts /\ [][Next]_vars

\* ----------------------------------------------------- storage failures
\* A statement that reaches the database (a query, a flush, a commit) raises.
\* Each action is one invocation meeting one such failure, run to the end of
\* the function; commit_ok tells whether the commit its failure handler
\* makes afterwards goes through.

\* the failure handler of execute_job_task (the body of "except Exception as
\* e"): what it leaves of the JobRun row, the retry messages it sends and
\* the statement at which it raises in its turn ("nowhere": it does not).
\* stored is the committed row, row the object with the attributes set on it
\* since.
FailureHandler(run_loaded, job_loaded, stored, row, policy, task, commit_ok, t) ==
    IF ~run_loaded
    THEN [run |-> stored, retries |-> {}, raised_at |-> "log_permanent"]
    ELSE IF ~commit_ok
    THEN [run |-> stored, retries |-> {}, raised_at |-> "commit_failed"]
    ELSE IF job_loaded /\ TaskRetryWanted(policy, RunFailed(row, t).retry_count)
    THEN [run |-> RunFailed(row, t),
          retries |-> IF CeleryRetryAllowed(task.retries)
                      THEN {RetryTask(task,
                               TaskCountdown(policy,
                                             RunFailed(row, t).retry_count), t)}
                      ELSE {},
          raised_at |-> "retry"]
    ELSE [run |-> RunFailed(row, t), retries |-> {}, raised_at |-> "nowhere"]

\* a worker takes a task and one of the two loads or the commit of status
\* running raises
WorkerStartFault(w, task, site, commit_ok) ==
    /\ spent.faults < deploy.faults
    /\ w <= deploy.workers
    /\ wpc[w] = "idle"
    /\ task \in queue
    /\ task.eta <= now
    /\ Visible(task.run_id)
    /\ JobExists(task.job_id)
    /\ LET r == task.run_id
           h == FailureHandler(site # "load_run", site = "commit_running",
                    runs[r],
                    IF site = "commit_running"
                    THEN RunStarted(runs[r], now) ELSE runs[r],
                    jobs[task.job_id].retry_policy, task, commit_ok, now)
       IN IF CatchingClause(site) = "none"
          THEN /\ escaped' = escaped \cup {"execute_job_task"}
               /\ queue' = queue \ {task}
               /\ UNCHANGED runs
          ELSE /\ runs' = [runs EXCEPT ![r] = h.run]
               /\ queue' = (queue \ {task}) \cup h.retries
               /\ escaped' = escaped \cup
                     Leaves("execute_job_task", {h.raised_at} \ {"nowhere"})
    /\ spent' = [spent EXCEPT !.faults = @ + 1]
    /\ UNCHANGED <<now, jobs, nextJobId, nextRunId, ppc, now_utc, batch,
                   cur, locks, wpc, wtask, deploy, answer, req, se_in, se_out, rp_cfg,
                   rp_count, rp_out, ex>>

\* the payload ran without an exception and the success commit raises; when
\* the handler's commit goes through it writes what the session holds: the
\* run as failed and the job's last_run and next_run
WorkerSuccessFault(w, commit_ok) ==
    /\ spent.faults < deploy.faults
    /\ wpc[w] = "exec"
    /\ ExecuteOutcome(wtask[w].payload) = "ok"
    /\ RunExists(wtask[w].run_id)
    /\ ~Locked(wtask[w].job_id)
    /\ LET r == wtask[w].run_id
           j == wtask[w].job_id
           h == FailureHandler(TRUE, TRUE, runs[r],
                    RunSucceeded(runs[r],
                                 Dispatch(wtask[w].payload).result_log, now),
                    jobs[j].retry_policy, wtask[w], commit_ok, now)
       IN IF CatchingClause("commit_success") = "none"
          THEN /\ escaped' = escaped \cup {"execute_job_task"}
               /\ UNCHANGED <<runs, jobs, queue>>
          ELSE /\ runs' = [runs EXCEPT ![r] = h.run]
               /\ jobs' = IF commit_ok
                          THEN [jobs EXCEPT ![j] =
                                  JobAfterSuccess(@, runs[r], now)]
                          ELSE jobs
               /\ queue' = queue \cup h.retries
               /\ escaped' = escaped \cup
                     Leaves("execute_job_task", {h.raised_at} \ {"nowhere"})
    /\ wpc' = [wpc EXCEPT ![w] = "idle"]
    /\ wtask' = [wtask EXCEPT ![w] = NoTask]
    /\ spent' = [spent EXCEPT !.faults = @ + 1]
    /\ UNCHANGED <<now, nextJobId, nextRunId, ppc, now_utc, batch, cur,
                   locks, deploy, answer, req, se_in, se_out, rp_cfg, rp_count, rp_out,
                   ex>>

\* the payload raised and the failure handler's own commit raises
WorkerFailFault(w) ==
    /\ spent.faults < deploy.faults
    /\ wpc[w] = "exec"
    /\ ExecuteOutcome(wtask[w].payload) = "error"
    /\ RunExists(wtask[w].run_id)
    /\ LET r == wtask[w].run_id
           h == FailureHandler(TRUE, TRUE, runs[r], runs[r],
                    jobs[wtask[w].job_id].retry_policy, wtask[w], FALSE, now)
       IN /\ runs' = [runs EXCEPT ![r] = h.run]
          /\ queue' = queue \cup h.retries
          /\ escaped' = escaped \cup
                Leaves("execute_job_task", {"dispatch", h.raised_at})
    /\ wpc' = [wpc EXCEPT ![w] = "idle"]
    /\ wtask' = [wtask EXCEPT ![w] = NoTask]
    /\ spent' = [spent EXCEPT !.faults = @ + 1]
    /\ UNCHANGED <<now, jobs, nextJobId, nextRunId, ppc, now_utc, batch,
                   cur, locks, deploy, answer, req, se_in, se_out, rp_cfg, rp_count,
                   rp_out, ex>>

\* the due-jobs query of poll_due_jobs raises: rollback, close, return
PollScanFault(p) ==
    /\ spent.faults < deploy.faults
    /\ p <= deploy.pollers
    /\ ppc[p] = "idle"
    /\ escaped' = escaped \cup Leaves("poll_due_jobs", {"scan"})
    /\ spent' = [spent EXCEPT !.faults = @ + 1]
    /\ UNCHANGED <<now, jobs, runs, nextJobId, nextRunId, queue, ppc,
                   now_utc, batch, cur, locks, wpc, wtask, deploy, answer, req, se_in,
                   se_out, rp_cfg, rp_count, rp_out, ex>>

\* what the poller's state becomes when the loop body for batch entry b
\* raises at site: under the loop's except clause the handler logs job.id,
\* rolls the session back and the loop goes on; otherwise the cycle ends
\* there.  in_flush tells that the statement failed in a flush: the session
\* has then expired its objects and refuses SQL until it is rolled back,
\* so reading job.id in the handler raises and the outer clause ends the
\* cycle.
PollAfterFault(p, b, site, in_flush) ==
    LET rest == IF /\ CatchingClause(site) = "except Exception as job_error"
                   /\ ~in_flush
                THEN batch[p] \ {b} ELSE {}
        sites == IF in_flush THEN {site, "log_job_error"} ELSE {site}
    IN /\ batch' = [batch EXCEPT ![p] = rest]
       /\ ppc' = [ppc EXCEPT ![p] = IF rest = {} THEN "idle" ELSE "loop"]
       /\ now_utc' = [now_utc EXCEPT ![p] = IF rest = {} THEN 0 ELSE @]
       /\ cur' = [cur EXCEPT ![p] = 0]
       /\ locks' = [locks EXCEPT ![p] = {}]
       /\ escaped' = escaped \cup Leaves("poll_due_jobs", sites)

\* the flush of the new JobRun raises: nothing was inserted or enqueued
PollFlushFault(p, b) ==
    /\ spent.faults < deploy.faults
    /\ ppc[p] = "loop"
    /\ cur[p] = 0
    /\ b \in batch[p]
    /\ JobExists(b.job)
    /\ PollAfterFault(p, b, "flush", TRUE)
    /\ spent' = [spent EXCEPT !.faults = @ + 1]
    /\ UNCHANGED <<now, jobs, runs, nextJobId, nextRunId, queue, wpc, wtask,
                   deploy, answer, req, se_in, se_out, rp_cfg, rp_count, rp_out,
                   ex>>

\* the per-job commit raises, in the flush it starts with or in the COMMIT
\* itself: the rollback discards the flushed JobRun and the job's new
\* last_run / next_run / status; the task already sent stays in the broker
PollCommitFault(p, in_flush) ==
    /\ spent.faults < deploy.faults
    /\ ppc[p] = "loop"
    /\ cur[p] # 0
    /\ runs' = [runs EXCEPT ![cur[p]] = NoRun]
    /\ \E b \in batch[p] :
          b.job = runs[cur[p]].job_id
             /\ PollAfterFault(p, b, "commit", in_flush)
    /\ spent' = [spent EXCEPT !.faults = @ + 1]
    /\ UNCHANGED <<now, jobs, nextJobId, nextRunId, queue, wpc, wtask,
                   deploy, answer, req, se_in, se_out, rp_cfg, rp_count, rp_out,
                   ex>>

FaultDeployments ==
    {[pollers |-> 1, workers |-> 1, jobs |-> 1, runs |-> MaxRuns - 1,
      run_now |-> 1, deletes |-> 1, updates |-> 1, faults |-> MaxFaults,
      inputs |-> CreateInputs,
      edits |-> UpdateInputs, keys |-> {ApiKey}]}

InitFault ==
    /\ InitStore
    /\ deploy \in FaultDeployments
    /\ spent = NoSpent
    /\ escaped = {}
    /\ se_in = NoCall
    /\ se_out = <<>>
    /\ rp_cfg = EmptyDict
    /\ rp_count = 0
    /\ rp_out = NoOut

NextFault ==
    \/ Next
    \/ \E w \in Workers : \E t \in queue :
          \E site \in {"load_run", "load_job", "commit_running"} :
             \E commit_ok \in BOOLEAN : WorkerStartFault(w, t, site, commit_ok)
    \/ \E w \in Workers : \E commit_ok \in BOOLEAN :
          WorkerSuccessFault(w, commit_ok)
    \/ \E w \in Workers : WorkerFailFault(w)
    \/ \E p \in Pollers : PollScanFault(p)
    \/ \E p \in Pollers : \E b \in batch[p] : PollFlushFault(p, b)
    \/ \E p \in Pollers : \E in_flush \in BOOLEAN :
          PollCommitFault(p, in_flush)

SpecFault == InitFault /\ [][NextFault]_vars

\* -------------------------------------------- RetryPolicy as a pure object
\* the policy_config mappings a RetryPolicy is built from: each key absent
\* or set to a value of 0..MaxCfg
RetryKeys == {"max_retries", "retry_delay", "backoff_factor"}

RetryConfigs ==
    UNION {[ks -> 0..MaxCfg] : ks \in SUBSET RetryKeys}

InitRetry ==
    /\ InitStore
    /\ deploy \in {d \in Deployments : d.pollers = NumPollers}
    /\ spent = NoSpent
    /\ escaped = {}
    /\ se_in = NoCall
    /\ se_out = <<>>
    /\ rp_cfg \in RetryConfigs
    /\ rp_count = 0
    /\ rp_out = NoOut

\* RetryPolicy(rp_cfg).should_retry(rp_count)
CallShouldRetry ==
    /\ Len(rp_out.retry) = rp_count
    /\ rp_out' = [rp_out EXCEPT
                    !.retry = Append(@, should_retry(rp_cfg, rp_count))]
    /\ UNCHANGED <<now, jobs, runs, nextJobId, nextRunId, queue, ppc,
                   now_utc, batch, cur, locks, wpc, wtask, deploy, answer, req,
                   spent, escaped, se_in, se_out, rp_cfg,
                   rp_count, ex>>

\* RetryPolicy(rp_cfg).get_retry_delay(rp_count)
CallGetRetryDelay ==
    /\ Len(rp_out.delay) = rp_count
    /\ rp_out' = [rp_out EXCEPT
                    !.delay = Append(@, get_retry_delay(rp_cfg, rp_count))]
    /\ UNCHANGED <<now, jobs, runs, nextJobId, nextRunId, queue, ppc,
                   now_utc, batch, cur, locks, wpc, wtask, deploy, answer, req,
                   spent, escaped, se_in, se_out, rp_cfg,
                   rp_count, ex>>

\* the caller goes on to the next retry count
NextCount ==
    /\ rp_count < MaxCount
    /\ Len(rp_out.retry) = rp_count + 1
    /\ Len(rp_out.delay) = rp_count + 1
    /\ rp_count' = rp_count + 1
    /\ UNCHANGED <<now, jobs, runs, nextJobId, nextRunId, queue, ppc,
                   now_utc, batch, cur, locks, wpc, wtask, deploy, answer, req,
                   spent, escaped, se_in, se_out, rp_cfg,
                   rp_out, ex>>

NextRetry == CallShouldRetry \/ CallGetRetryDelay \/ NextCount

SpecRetry == InitRetry /\ [][NextRetry]_vars

\* ------------------------------------ calculate_next_run as a function
\* the expressions and time zones calculate_next_run is called with
Offsets == (0 - MaxOffset)..MaxOffset

ScheduleExprs ==
    {Cron(k) : k \in 1..MaxPeriod}
        \cup {Instant(t) : t \in 0..(MaxTime + 1)}
        \cup {InstantAt(t, o) : t \in 0..(MaxTime + 1), o \in Offsets}
        \cup {Interval(n) : n \in 1..MaxPeriod}
        \cup {IntervalOf(n, u) : n \in 0..MaxPeriod, u \in Units}
        \cup {IntervalOf(DatetimeMax - 1, "s"), IntervalOf(DatetimeMax, "s")}
        \cup {Invalid}

Zones == {Zone(o) : o \in Offsets} \cup {UnknownZone}

InitSchedule ==
    /\ InitStore
    /\ deploy \in {d \in Deployments : d.pollers = NumPollers}
    /\ spent = NoSpent
    /\ escaped = {}
    /\ se_in \in [schedule_expr : ScheduleExprs, timezone : Zones]
    /\ se_out = <<>>
    /\ rp_cfg = EmptyDict
    /\ rp_count = 0
    /\ rp_out = NoOut

\* calculate_next_run(se_in.schedule_expr, se_in.timezone), called at most
\* once per reading of the clock
CallCalculateNextRun ==
    /\ \A i \in 1..Len(se_out) : se_out[i].now < now
    /\ se_out' = Append(se_out,
                   [now |-> now,
                    next_run |-> calculate_next_run(se_in.schedule_expr,
                                                    se_in.timezone, now)])
    /\ UNCHANGED <<now, jobs, runs, nextJobId, nextRunId, queue, ppc,
                   now_utc, batch, cur, locks, wpc, wtask, deploy, answer, req, spent,
                   escaped, se_in, rp_cfg, rp_count, rp_out, ex>>

NextSchedule == Tick \/ CallCalculateNextRun

SpecSchedule == InitSchedule /\ [][NextSchedule]_vars

\* ------------------------------------------ claims on calculate_next_run
\* the cron expression fires when the wall clock of its zone reads wall
Fires(expr, wall) == wall % expr.n = 0

\* the instant (UTC) an absolute-instant expression denotes in zone tz
DenotedInstant(expr, tz) ==
    IF "utcoffset" \in DOMAIN expr
    THEN expr.n - expr.utcoffset
    ELSE expr.n - tz.utcoffset

ClaimedSeconds(expr) ==
    expr.n * (CASE Get(expr, "unit", "s") = "s" -> 1
                [] Get(expr, "unit", "s") = "m" -> 60
                [] Get(expr, "unit", "s") = "h" -> 3600
                [] Get(expr, "unit", "s") = "d" -> 86400)

ClaimedMaxRetries(cfg) ==
    IF "max_retries" \in DOMAIN cfg THEN cfg["max_retries"] ELSE 3
ClaimedBaseDelay(cfg) ==
    IF "retry_delay" \in DOMAIN cfg THEN cfg["retry_delay"] ELSE 60
ClaimedBackoffFactor(cfg) ==
    IF "backoff_factor" \in DOMAIN cfg THEN cfg["backoff_factor"] ELSE 2
ClaimedPower(b, e) == IF e = 0 THEN 1 ELSE b ^ e

\* C8: for every configured max_retries >= 0 and every retry_count >= 0,
\* should_retry(retry_count) is true when retry_count < max_retries and false
\* once retry_count >= max_retries; with no max_retries configured the
\* threshold is 3.
C8_ShouldRetryThreshold ==
    \A i \in 1..Len(rp_out.retry) :
        rp_out.retry[i] <=> (i - 1 < ClaimedMaxRetries(rp_cfg))

\* should_retry was called on an unconfigured policy for the counts 2 and 3
\* and answered true, then false
C8_Witness ==
    /\ "max_retries" \notin DOMAIN rp_cfg
    /\ Len(rp_out.retry) >= 4
    /\ rp_out.retry[3]
    /\ ~rp_out.retry[4]

\* C9: for every retry_count >= 0 and every policy configuration,
\* get_retry_delay(retry_count) equals base_delay * backoff_factor^retry_count,
\* base_delay defaulting to 60 and backoff_factor to 2; the call changes no
\* state (the policy configuration is as it was).
C9_DelayFormula ==
    \A i \in 1..Len(rp_out.delay) :
        rp_out.delay[i] =
            ClaimedBaseDelay(rp_cfg)
                * ClaimedPower(ClaimedBackoffFactor(rp_cfg), i - 1)

\* get_retry_delay was called on a policy with neither value configured, for
\* the counts 0, 1, 2
C9_Witness ==
    /\ "retry_delay" \notin DOMAIN rp_cfg
    /\ "backoff_factor" \notin DOMAIN rp_cfg
    /\ Len(rp_out.delay) >= 3
    /\ rp_out.delay[3] = 240

\* C10 as stated: for every policy with backoff_factor > 1 the delay grows
\* strictly with retry_count, whatever base delay is configured.
C10_MonotoneAnyBase ==
    ClaimedBackoffFactor(rp_cfg) > 1 =>
        \A i \in 1..(Len(rp_out.delay) - 1) :
            rp_out.delay[i + 1] > rp_out.delay[i]

\* C10 as amended: for every policy with backoff_factor > 1 and a base delay
\* above 0, get_retry_delay(k+1) > get_retry_delay(k) for all k >= 0.
C10_MonotonePositiveBase ==
    (ClaimedBackoffFactor(rp_cfg) > 1 /\ ClaimedBaseDelay(rp_cfg) > 0) =>
        \A i \in 1..(Len(rp_out.delay) - 1) :
            rp_out.delay[i + 1] > rp_out.delay[i]

\* a policy with a configured factor above 1 and a configured positive base
\* delay has answered for three successive counts
C10_Witness ==
    /\ "backoff_factor" \in DOMAIN rp_cfg
    /\ "retry_delay" \in DOMAIN rp_cfg
    /\ rp_cfg["backoff_factor"] > 1
    /\ rp_cfg["retry_delay"] > 0
    /\ Len(rp_out.delay) >= 3

\* ------------------------------------------- claims on the poller and task
\* the step in which worker w commits a failed attempt of a run that exists
FailStep(w) ==
    /\ wpc[w] = "exec"
    /\ wpc'[w] = "idle"
    /\ RunExists(wtask[w].run_id)
    /\ runs'[wtask[w].run_id].status = "failed"

\* the retry messages a step adds to the broker
RetriesSent == queue' \ queue

\* the policy of the job worker w runs, and its run's count after the step
PolicyOf(w) == jobs[wtask[w].job_id].retry_policy
CountAfter(w) == runs'[wtask[w].run_id].retry_count

\* C1: each due occurrence of a Job (one value of next_run at or before now)
\* results in exactly one JobRun, whatever the number of concurrent poll
\* cycles, also for the Jobs a cycle processes after its first commit.
C1_OneRunPerDueOccurrence ==
    \A r1, r2 \in RunIds :
        ( /\ Visible(r1) /\ Visible(r2)
          /\ runs[r1].origin = "poller" /\ runs[r2].origin = "poller"
          /\ runs[r1].job_id = runs[r2].job_id
          /\ runs[r1].trigger = runs[r2].trigger ) => r1 = r2

\* C2: at no time are two JobRuns of the same Job both in status running.
C2_RunsSequential ==
    \A r1, r2 \in RunIds :
        ( /\ RunExists(r1) /\ RunExists(r2)
          /\ runs[r1].job_id = runs[r2].job_id
          /\ runs[r1].status = "running" /\ runs[r2].status = "running" )
        => r1 = r2

\* C3: a JobRun's status is one of pending, running, success, failed; a run is
\* created pending and its status changes only pending -> running,
\* running -> success, running -> failed and, on a retry, failed -> running:
\* never pending -> success or failed, and never away from success.
C3_StatusTransitions ==
    [][\A r \in RunIds :
          /\ runs'[r].status \in
                {"absent", "pending", "running", "success", "failed"}
          /\ (~RunExists(r) /\ runs'[r].status # "absent")
                => runs'[r].status = "pending"
          /\ ( /\ RunExists(r) /\ runs'[r].status # "absent"
               /\ runs'[r].status # runs[r].status )
                => <<runs[r].status, runs'[r].status>> \in
                      {<<"pending", "running">>, <<"running", "success">>,
                       <<"running", "failed">>, <<"failed", "running">>}
      ]_vars

\* a run that failed once is running again: its retry attempt has started
C3_Witness ==
    \E r \in RunIds : runs[r].status = "running" /\ runs[r].retry_count = 1

\* C4: after a failed attempt has incremented retry_count, a retry is
\* scheduled if and only if RetryPolicy.should_retry(retry_count) is true for
\* the Job's retry policy (retry_count < max_retries).
C4_RetryIffShouldRetry ==
    [][\A w \in Workers :
          FailStep(w) =>
             ((RetriesSent # {}) <=> should_retry(PolicyOf(w), CountAfter(w)))
      ]_vars

\* C5: when the first attempt of a run fails (retry_count becomes 1) and the
\* Job's max_retries is at least 1, a second attempt of the run is scheduled
\* (and then executed by a worker).
C5_SecondAttemptScheduled ==
    [][\A w \in Workers :
          ( /\ FailStep(w)
            /\ CountAfter(w) = 1
            /\ ClaimedMaxRetries(PolicyOf(w)) >= 1 )
          => \E t \in RetriesSent :
                t.run_id = wtask[w].run_id /\ t.retries = 1
      ]_vars

\* C6: the delay with which a failed run is re-queued equals
\* base_delay * backoff_factor^retry_count for the values configured in the
\* Job's retry_policy (defaults 60 and 2), i.e. it equals
\* RetryPolicy.get_retry_delay(retry_count) for the same policy.
C6_CountdownIsRetryDelay ==
    [][\A w \in Workers :
          FailStep(w) =>
             \A t \in RetriesSent :
                /\ t.eta - now = get_retry_delay(PolicyOf(w), CountAfter(w))
                /\ t.eta - now =
                      ClaimedBaseDelay(PolicyOf(w))
                        * ClaimedPower(ClaimedBackoffFactor(PolicyOf(w)),
                                       CountAfter(w))
      ]_vars

\* C7: a Job whose retry_policy is absent (the empty mapping create_job
\* stores) is governed by the default policy: after a failed attempt a retry
\* is scheduled while retry_count < 3, with base delay 60 and factor 2.
C7_AbsentPolicyDefaults ==
    [][\A w \in Workers :
          (FailStep(w) /\ ~Truthy(PolicyOf(w))) =>
             /\ (RetriesSent # {}) <=> (CountAfter(w) < 3)
             /\ \A t \in RetriesSent :
                   t.eta - now = 60 * ClaimedPower(2, CountAfter(w))
      ]_vars

\* ---------------------------------------------- claims on job completion
\* the committed JobRuns a poll cycle has created for job j
PollerRuns(j) ==
    {r \in RunIds : /\ Visible(r)
                    /\ runs[r].origin = "poller"
                    /\ runs[r].job_id = j}

OneTime(j) == JobExists(j) /\ jobs[j].schedule_expr.kind = "datetime"

\* C11: when a poll cycle claims a one-time Job whose instant has passed, the
\* commit that creates its JobRun leaves the Job completed with next_run
\* null, and no poll cycle creates a run for it again: a one-time Job has
\* exactly one poller-created run.
C11_OneTimeJobRunsOnce ==
    \A j \in JobIds :
        (OneTime(j) /\ PollerRuns(j) # {}) =>
            /\ jobs[j].status = "completed"
            /\ jobs[j].next_run = NULL
            /\ Cardinality(PollerRuns(j)) = 1

\* the JobRuns a step creates for job j
RunsCreated(j) ==
    {r \in RunIds : ~RunExists(r) /\ runs'[r].status # "absent"
                                  /\ runs'[r].job_id = j}

\* C12: completed is terminal: once a Job is completed no poll cycle and no
\* run-now request creates a JobRun for it, and no step of the poller or of a
\* worker changes its status away from completed.
C12_CompletedIsTerminal ==
    [][\A j \in JobIds :
          (JobExists(j) /\ jobs[j].status = "completed") =>
             /\ RunsCreated(j) = {}
             /\ spent' = spent => jobs'[j].status \in {"completed", "absent"}
      ]_vars

\* the poll cycles that hold job j claimed
ClaimedBy(j) == {p \in Pollers : j \in locks[p]}

\* C13: every active Job with a non-null next_run has next_run in the future
\* or is being claimed by exactly one poller; and a Job whose next-run
\* computation (at creation, update, poller claim or worker success commit)
\* returned no future occurrence is completed with next_run null.
C13_NextRunInvariants ==
    \A j \in JobIds :
        JobExists(j) =>
            /\ (jobs[j].status = "active" /\ jobs[j].next_run # NULL) =>
                  \/ jobs[j].next_run > now
                  \/ Cardinality(ClaimedBy(j)) = 1
            /\ jobs[j].next_run = NULL => jobs[j].status = "completed"

\* ------------------------------------------- claims on what a cycle takes
\* C14: a poll cycle creates a JobRun only for Jobs that at the moment of its
\* scan are active with a non-null next_run <= now: what the scan puts in the
\* cycle's batch is such a Job, the batch never grows during the cycle, and
\* every poller-created JobRun is for a Job of its cycle's batch.
C14_PollerTakesOnlyDueActive ==
    [][/\ \A p \in Pollers :
            (ppc[p] = "idle" /\ ppc'[p] = "loop") =>
               \A b \in batch'[p] :
                  /\ jobs[b.job].status = "active"
                  /\ jobs[b.job].next_run # NULL
                  /\ jobs[b.job].next_run <= now
                  /\ b.due = jobs[b.job].next_run
       /\ \A p \in Pollers :
            ppc[p] = "loop" => batch'[p] \subseteq batch[p]
       /\ \A j \in JobIds : \A r \in RunsCreated(j) :
            runs'[r].origin = "poller" =>
               \E p \in Pollers :
                  /\ ppc[p] = "loop"
                  /\ [job |-> j, due |-> runs'[r].trigger] \in batch[p]
      ]_vars

\* a cycle that scanned when a paused job was due has taken another job and
\* left the paused one without a run
C14_Witness ==
    \E j1, j2 \in JobIds :
        /\ JobExists(j1) /\ JobExists(j2)
        /\ jobs[j1].status = "paused"
        /\ jobs[j1].next_run # NULL
        /\ PollerRuns(j1) = {}
        /\ PollerRuns(j2) # {}
        /\ jobs[j2].last_run >= jobs[j1].next_run

\* job j, taken as due by a poll cycle that is still in its loop, has a
\* schedule expression of none of the accepted forms
TakenWithInvalidSchedule(j) ==
    /\ JobExists(j)
    /\ jobs[j].schedule_expr.kind = "invalid"
    /\ \E p \in Pollers : ppc[p] = "loop" /\ \E b \in batch[p] : b.job = j

\* C15: a due Job whose schedule expression is invalid is skipped by the poll
\* cycle: no JobRun is created for it, nothing is enqueued for it and its
\* status stays active.
C15_InvalidScheduleSkipped ==
    [][\A j \in JobIds :
          (TakenWithInvalidSchedule(j) /\ spent' = spent) =>
             /\ RunsCreated(j) = {}
             /\ \A t \in queue' \ queue : t.job_id # j
             /\ jobs'[j].status = jobs[j].status
      ]_vars

\* ------------------------------------------------ claims on the executor
\* the payload names python_code or shell_script and lacks the code / script
MissingField(payload) ==
    \/ /\ Get(payload, "type", "default") = "python_code"
       /\ Get(payload, "code", "none") = "none"
    \/ /\ Get(payload, "type", "default") = "shell_script"
       /\ Get(payload, "script", "none") = "none"

\* C16: a run that fails because its payload lacks a required field
\* (python_code without code, shell_script without script) is failed
\* permanently: no retry is scheduled for it, whatever the Job's retry policy.
C16_MissingFieldNotRetried ==
    [][\A w \in Workers :
          (FailStep(w) /\ MissingField(wtask[w].payload)) => RetriesSent = {}
      ]_vars

\* the job types the dispatch of execute_job_task lists
RecognizedTypes ==
    {"python_code", "shell_script", "data_processing", "email_notification",
     "ml_training", "number_crunching", "dummy_sleep"}

\* the step in which worker w ends the attempt of a run that exists
AttemptEnds(w) ==
    /\ wpc[w] = "exec"
    /\ wpc'[w] = "idle"
    /\ RunExists(wtask[w].run_id)

SessionsClosed ==
    /\ \A p \in Pollers :
          ppc[p] = "idle" => locks[p] = {} /\ cur[p] = 0 /\ batch[p] = {}
    /\ \A w \in Workers : wpc[w] = "idle" => wtask[w] = NoTask
    /\ \A r \in RunIds :
          (RunExists(r) /\ ~runs[r].committed) =>
             runs[r].origin = "api" \/ \E p \in Pollers : cur[p] = r

\* the step is an invocation that met a storage failure
FaultStep == spent'.faults = spent.faults + 1

\* C18: no execution failure and no storage failure (a failing query, flush
\* or commit at any step) propagates out of execute_job_task or
\* poll_due_jobs: each is caught, the session is rolled back and closed, and
\* every JobRun row is left as last committed (uncommitted rows are gone; the
\* only row written is the one the failure handler's commit marks failed).
C18_FailuresAreContained ==
    [][/\ escaped' = {}
       /\ SessionsClosed'
       /\ FaultStep =>
            \A r \in RunIds :
               \/ runs'[r] = runs[r]
               \/ RunExists(r) /\ ~runs[r].committed /\ runs'[r] = NoRun
               \/ /\ RunExists(r)
                  /\ runs'[r].status = "failed"
                  /\ runs'[r].committed
                  /\ runs'[r].retry_count = runs[r].retry_count + 1
      ]_vars

\* two storage failures were met and contained: a poll cycle's commit failed
\* after its task was sent (the task is in the broker, its JobRun is not in
\* the table) and a worker's commit failed (its run is left running with no
\* worker on it)
C18_Witness ==
    /\ spent.faults = 2
    /\ escaped = {}
    /\ \E t \in queue : JobExists(t.job_id) /\ ~RunExists(t.run_id)
    /\ \E r \in RunIds :
          /\ runs[r].status = "running"
          /\ \A w \in Workers : wtask[w].run_id # r

\* ------------------------------------------ claims on interval schedules
\* the step in which worker w commits the success of a run that exists
SucceedStep(w) ==
    /\ wpc[w] = "exec"
    /\ wpc'[w] = "idle"
    /\ RunExists(wtask[w].run_id)
    /\ runs'[wtask[w].run_id].status = "success"

\* the step is the commit of a poll cycle's claim of job j
ClaimStep(j) ==
    \E p \in Pollers : cur[p] # 0 /\ cur'[p] = 0 /\ runs[cur[p]].job_id = j

RunNowDecides == req.state = "loaded" /\ req'.state # "loaded"

\* the step in which a run-now request finds no job
RunNowMisses ==
    /\ req.state \in {"none", "answered"}
    /\ req'.state = "answered"
    /\ req' # req

\* the JobRuns a step creates
AllRunsCreated == UNION {RunsCreated(j) : j \in JobIds}

\* C23: a run-now request creates exactly one new JobRun, pending with
\* retry_count 0 and started_at null, and enqueues exactly one execution task
\* for it, if and only if the Job exists and is active (as the request finds
\* it); for a missing Job (404) or a non-active Job (400) no JobRun is
\* created and nothing is enqueued.  In either case the request changes no
\* field of the Job.
C23_RunNowContract ==
    [][/\ RunNowDecides =>
            IF req.job.status = "active" /\ JobExists(req.job_id)
            THEN /\ req'.state = "flushed"
                 /\ AllRunsCreated = {req'.run_id}
                 /\ runs'[req'.run_id].job_id = req.job_id
                 /\ runs'[req'.run_id].status = "pending"
                 /\ runs'[req'.run_id].retry_count = 0
                 /\ runs'[req'.run_id].started_at = NULL
                 /\ Cardinality(queue' \ queue) = 1
                 /\ \A t \in queue' \ queue :
                       /\ t.run_id = req'.run_id
                       /\ t.job_id = req.job_id
                       /\ t.retries = 0
            ELSE /\ AllRunsCreated = {}
                 /\ queue' = queue
                 /\ req'.state = "answered"
                 /\ req.job.status # "active" => req'.status_code = 400
       /\ RunNowMisses =>
            /\ ~JobExists(req'.job_id)
            /\ req'.status_code = 404
            /\ AllRunsCreated = {}
            /\ queue' = queue
       /\ req' # req => jobs' = jobs
       /\ \A r \in AllRunsCreated : runs'[r].origin = "api" => RunNowDecides
      ]_vars

\* a run-now request for a job that is no longer active has been refused
\* with 400 after an earlier request for it was accepted: its run is
\* in the table
C23_Witness ==
    /\ req.state = "answered"
    /\ req.status_code = 400
    /\ \E r \in RunIds :
          /\ Visible(r)
          /\ runs[r].origin = "api"
          /\ runs[r].job_id = req.job_id

\* the step in which a create request is answered
CreateAnswered == answer' # answer

\* C24: creating a Job with an unparseable schedule expression is rejected
\* with status 400 and stores no Job: the set of stored Jobs is unchanged by
\* the rejected request.
C24_InvalidCreateRejected ==
    [][(CreateAnswered /\ answer'.schedule_expr.kind = "invalid") =>
          /\ answer'.status_code = 400
          /\ jobs' = jobs
          /\ nextJobId' = nextJobId
          /\ runs' = runs
          /\ queue' = queue
      ]_vars

\* a create request with an unparseable expression was answered 400 while a
\* job was stored, and the store holds that job only
C24_Witness ==
    /\ answer.op = "create_job"
    /\ answer.schedule_expr.kind = "invalid"
    /\ answer.status_code = 400
    /\ nextJobId = 2
    /\ JobExists(1)
    /\ \A j \in JobIds \ {1} : ~JobExists(j)

\* the step is an update request taking effect
UpdateStep == spent'.updates = spent.updates + 1

\* every update request of the deployment carries an unparseable expression
EditsAreInvalid ==
    \A u \in deploy.edits :
        "schedule_expr" \in DOMAIN u /\ u.schedule_expr.kind = "invalid"

\* C25: updating a Job with an unparseable schedule expression is rejected
\* and leaves the stored Job unchanged: its schedule_expr, next_run and
\* status keep the values they had before the request.
C25_InvalidUpdateRejected ==
    [][(UpdateStep /\ EditsAreInvalid) =>
          \A j \in JobIds :
             /\ jobs'[j].status = jobs[j].status
             /\ JobExists(j) =>
                   /\ jobs'[j].schedule_expr = jobs[j].schedule_expr
                   /\ jobs'[j].next_run = jobs[j].next_run
      ]_vars

\* Scheduler.validate_schedule: what the schedule evaluator classifies as
\* valid
validate_schedule(expr) == expr.kind \in {"cron", "datetime", "interval"}

\* C26: job creation accepts exactly the schedule expressions the schedule
\* evaluator classifies as valid: every cron expression, every absolute
\* instant and every interval string is accepted and stored with the
\* next_run the evaluator computes, and every other expression is rejected.
C26_CreateAcceptsValidSchedules ==
    [][CreateAnswered =>
          /\ answer'.status_code = 201 <=>
                validate_schedule(answer'.schedule_expr)
          /\ answer'.status_code = 201 =>
                /\ jobs'[answer'.job_id].schedule_expr = answer'.schedule_expr
                /\ jobs'[answer'.job_id].next_run =
                      calculate_next_run(answer'.schedule_expr,
                                         jobs'[answer'.job_id].timezone, now)
          /\ answer'.status_code # 201 => jobs' = jobs
      ]_vars

\* C27: every job API request that carries no API key or a wrong API key is
\* rejected with status 401, changes no stored Job or JobRun and enqueues
\* nothing.
C27_UnauthorizedRejected ==
    [][(CreateAnswered /\ answer'.api_key # ApiKey) =>
          /\ answer'.status_code = 401
          /\ jobs' = jobs
          /\ runs' = runs
          /\ queue' = queue
      ]_vars

\* --------------------------------------------- claims on a run's attempts
\* the poll cycles that claim job j in this step: the loop body flushes the
\* JobRun of the claim
ClaimsOf(j) ==
    {p \in Pollers : cur[p] = 0 /\ cur'[p] # 0 /\ runs'[cur'[p]].job_id = j}

\* the run-now requests for job j accepted in this step
AcceptedRunNow(j) ==
    IF RunNowDecides /\ req'.state = "flushed" /\ req.job_id = j
    THEN {"run_now"} ELSE {}

AttemptFails(w) ==
    /\ AttemptEnds(w)
    /\ ExecuteOutcome(wtask[w].payload) = "error"

\* C29: every failed attempt of a run moves it from running to failed, sets
\* finished_at, populates error and increases retry_count by exactly 1; a run
\* starts with retry_count 0 and no other step changes the count, so the
\* count is the number of attempts that have failed so far; and every run in
\* status failed has a non-null error.
C29_FailedAttemptCounted ==
    [][/\ \A w \in Workers :
            AttemptFails(w) =>
               /\ runs[wtask[w].run_id].status = "running"
               /\ runs'[wtask[w].run_id].status = "failed"
               /\ runs'[wtask[w].run_id].finished_at = now
               /\ runs'[wtask[w].run_id].error = TRUE
               /\ runs'[wtask[w].run_id].retry_count =
                     runs[wtask[w].run_id].retry_count + 1
       /\ \A r \in RunIds :
            /\ (~RunExists(r) /\ runs'[r].status # "absent") =>
                  runs'[r].retry_count = 0
            /\ ( /\ RunExists(r) /\ runs'[r].status # "absent"
                 /\ runs'[r].retry_count # runs[r].retry_count ) =>
                  \E w \in Workers : AttemptFails(w) /\ wtask[w].run_id = r
            /\ runs'[r].status = "failed" => runs'[r].error = TRUE
      ]_vars

\* both attempts of a run have failed: it is failed with retry_count 2
C29_Witness ==
    \E r \in RunIds :
        /\ runs[r].status = "failed"
        /\ runs[r].retry_count = 2
        /\ runs[r].error = TRUE
        /\ runs[r].finished_at # NULL

OneTimeInputs ==
    {JobCreate(Instant(1), DefaultPayload, EmptyDict, "active"),
     JobCreate(Cron(1),    FailingScript,  Policy1,   "active")}

OneTimeDeployments ==
    {[pollers |-> 1, workers |-> 1, jobs |-> 1,
      runs |-> MaxRuns - 1, run_now |-> MaxRuns - 1, deletes |-> 1,
      updates |-> 1, faults |-> 0, inputs |-> OneTimeInputs,
      edits |-> UpdateInputs, keys |-> {ApiKey}]}

InitOneTime ==
    /\ InitStore
    /\ deploy \in OneTimeDeployments
    /\ spent = NoSpent
    /\ escaped = {}
    /\ se_in = NoCall
    /\ se_out = <<>>
    /\ rp_cfg = EmptyDict
    /\ rp_count = 0
    /\ rp_out = NoOut

SpecOneTime == InitOneTime /\ [][Next]_vars

\* C31: when a run succeeds and recomputing the Job's next_run returns None,
\* the worker's success commit sets Job.status to completed together with
\* next_run = null, also for a run started by a run-now request on a Job
\* whose schedule has no future occurrence.
C31_SuccessCompletesExhausted ==
    [][\A w \in Workers :
          ( /\ SucceedStep(w)
            /\ calculate_next_run(jobs[wtask[w].job_id].schedule_expr,
                                  jobs[wtask[w].job_id].timezone, now) = NULL )
          => /\ jobs'[wtask[w].job_id].next_run = NULL
             /\ jobs'[wtask[w].job_id].status = "completed"
      ]_vars

\* ----------------------------------------- claims on the claim of a job
\* C32: for each Job claimed by a poll cycle, creating the pending JobRun,
\* enqueuing its task and updating Job.last_run / next_run take effect
\* atomically: in no reachable state is there a task in the broker for a
\* poller-created JobRun whose creation is not committed.
C32_ClaimIsAtomic ==
    \A t \in queue :
        (RunExists(t.run_id) /\ runs[t.run_id].origin = "poller") =>
            /\ runs[t.run_id].committed
            /\ jobs[t.job_id].last_run # NULL

\* ------------------------------ claims on what calculate_next_run signals
\* a valid one-time schedule with no future occurrence at any reading of
\* the clock: the instant 0, written with its UTC offset
ExhaustedExpr == InstantAt(0, 0)

\* C33: what calculate_next_run gives its caller for an unparseable
\* expression is distinguishable from what it gives for a valid schedule
\* with no future occurrence (so that no caller takes an invalid schedule
\* for an exhausted one and marks the Job completed).
C33_InvalidIsDistinguished ==
    (se_in.schedule_expr.kind = "invalid" /\ se_in.timezone.known) =>
        \A i \in 1..Len(se_out) :
            se_out[i].next_run #
                calculate_next_run(ExhaustedExpr, se_in.timezone,
                                   se_out[i].now)

\* ------------------------------------- claims on the Job after a failure
\* the schedule of job j is a valid one: completion of the job is then
\* completion on schedule exhaustion
ValidSchedule(job) ==
    job.schedule_expr.kind # "invalid" /\ job.timezone.known

\* C34: a failed attempt, with or without retries left, leaves the Job
\* untouched (status, last_run and next_run as before the failure commit),
\* so a recurring Job whose run has exhausted its retries stays active; and
\* the only way the poller or the worker takes a Job out of active is
\* completion on schedule exhaustion.
C34_FailureLeavesJob ==
    [][/\ \A w \in Workers : AttemptFails(w) => jobs' = jobs
       /\ \A j \in JobIds :
            ( /\ JobExists(j)
              /\ jobs[j].status = "active"
              /\ jobs'[j].status \notin {"active", "absent"}
              /\ spent' = spent ) =>
               /\ ClaimStep(j)
               /\ jobs'[j].status = "completed"
               /\ jobs'[j].next_run = NULL
               /\ ValidSchedule(jobs[j])
      ]_vars

\* ---------------------------------- the script files of the two executors
\* _execute_python_code_job and _execute_shell_script_job, statement by
\* statement, on the temporary directory
MaxCalls == 3

\* what payload["code"] / payload["script"] holds: source that exits 0,
\* source that exits non-zero, source that runs past the timeout, and a JSON
\* value that is truthy but not a string (payload is Dict[str, Any])
NotAString == "json:5"
Sources == {"exit0", "exit1", "hang", NotAString}

ScriptKey(type) == IF type = "python_code" THEN "code" ELSE "script"

ScriptPayloads ==
    {[type |-> "python_code", code |-> c] : c \in Sources}
        \cup {[type |-> "shell_script", script |-> c] : c \in Sources}
        \cup {MissingCode, MissingScript}

\* the call up to the try statement: the "if not code" check, then "with
\* tempfile.NamedTemporaryFile(mode='w', ..., delete=False) as f:
\* f.write(code); temp_file = f.name".  The file exists from the moment the
\* with statement is entered; write raises TypeError for a value that is
\* not a str, and the with statement closes the file without removing it.
ExecCreateFile(payload) ==
    /\ ex.pc \in {"idle", "done"}
    /\ ex.calls < MaxCalls
    /\ payload \in ScriptPayloads
    /\ LET source == Get(payload, ScriptKey(payload.type), "none")
           name == ex.calls + 1
       IN ex' = IF source = "none"
                THEN [ex EXCEPT !.pc = "done", !.payload = payload,
                                !.temp_file = 0, !.calls = name,
                                !.outcome = "ValueError"]
                ELSE IF source = NotAString
                THEN [ex EXCEPT !.pc = "done", !.payload = payload,
                                !.temp_file = name, !.calls = name,
                                !.files = @ \cup {name},
                                !.outcome = "TypeError"]
                ELSE [ex EXCEPT !.pc = "try", !.payload = payload,
                                !.temp_file = name, !.calls = name,
                                !.files = @ \cup {name},
                                !.outcome = "none"]
    /\ UNCHANGED <<now, jobs, runs, nextJobId, nextRunId, queue, ppc,
                   now_utc, batch, cur, locks, wpc, wtask, deploy, answer,
                   req, spent, escaped, se_in, se_out, rp_cfg, rp_count,
                   rp_out>>

\* the body of the try statement: (os.chmod and) subprocess.run with its
\* timeout, then the return or the raise on the return code; spawned tells
\* whether the interpreter could be started at all
ExecRun(spawned) ==
    /\ ex.pc = "try"
    /\ LET source == ex.payload[ScriptKey(ex.payload.type)]
       IN ex' = [ex EXCEPT
                   !.pc = "finally",
                   !.outcome = IF ~spawned THEN "OSError"
                               ELSE IF source = "exit0" THEN "returned"
                               ELSE IF source = "hang" THEN "TimeoutExpired"
                               ELSE "Exception"]
    /\ UNCHANGED <<now, jobs, runs, nextJobId, nextRunId, queue, ppc,
                   now_utc, batch, cur, locks, wpc, wtask, deploy, answer,
                   req, spent, escaped, se_in, se_out, rp_cfg, rp_count,
                   rp_out>>

\* the finally clause: os.unlink(temp_file), then the return or the raise
\* goes on to the caller
ExecFinally ==
    /\ ex.pc = "finally"
    /\ ex' = [ex EXCEPT !.pc = "done", !.files = @ \ {ex.temp_file}]
    /\ UNCHANGED <<now, jobs, runs, nextJobId, nextRunId, queue, ppc,
                   now_utc, batch, cur, locks, wpc, wtask, deploy, answer,
                   req, spent, escaped, se_in, se_out, rp_cfg, rp_count,
                   rp_out>>

InitExecutor ==
    /\ InitStore
    /\ deploy \in AttemptDeployments
    /\ spent = NoSpent
    /\ escaped = {}
    /\ se_in = NoCall
    /\ se_out = <<>>
    /\ rp_cfg = EmptyDict
    /\ rp_count = 0
    /\ rp_out = NoOut

NextExecutor ==
    \/ \E payload \in ScriptPayloads : ExecCreateFile(payload)
    \/ \E spawned \in BOOLEAN : ExecRun(spawned)
    \/ ExecFinally

SpecExecutor == InitExecutor /\ [][NextExecutor]_vars

\* C35: for code-execution and shell-execution jobs the temporary script
\* file created for an attempt no longer exists when the executor returns
\* or raises, on every exit path: zero exit, non-zero exit, subprocess
\* timeout, and any other exception raised after the file was created.
C35_TempFileRemoved ==
    ex.pc = "done" => ex.files = {}

\* on the exit paths that go through the try statement the script file is
\* gone when the executor returns or raises
TempFileRemovedAfterTry ==
    (ex.pc = "done" /\ ex.outcome \notin {"ValueError", "TypeError"}) =>
        ex.temp_file \notin ex.files

\* ------------------------------- claims on a failure inside a poll cycle
\* the deployments explored where the claims are about a storage failure
\* that a poll cycle meets in the middle of its batch: one with a batch of
\* several jobs, one with every kind of request
PollFaultInputs ==
    {JobCreate(Cron(1), DefaultPayload, EmptyDict, "active")}

PollFaultDeployments ==
    {[pollers |-> 1, workers |-> 1, jobs |-> MaxJobs, runs |-> MaxRuns - 1,
      run_now |-> 0, deletes |-> 0, updates |-> 0,
      faults |-> MaxFaults - 1, inputs |-> PollFaultInputs,
      edits |-> UpdateInputs, keys |-> {ApiKey}],
     [pollers |-> 1, workers |-> 1, jobs |-> 1, runs |-> MaxRuns - 1,
      run_now |-> 1, deletes |-> 1, updates |-> 1,
      faults |-> MaxFaults - 1, inputs |-> CreateInputs,
      edits |-> UpdateInputs, keys |-> {ApiKey}]}

InitPollFault ==
    /\ InitStore
    /\ deploy \in PollFaultDeployments
    /\ spent = NoSpent
    /\ escaped = {}
    /\ se_in = NoCall
    /\ se_out = <<>>
    /\ rp_cfg = EmptyDict
    /\ rp_count = 0
    /\ rp_out = NoOut

SpecPollFault == InitPollFault /\ [][NextFault]_vars

\* the step in which the loop body of poller p meets a storage failure
PollFaultStep(p) ==
    FaultStep /\ ppc[p] = "loop" /\ batch'[p] # batch[p]

\* C36: a failure while a poll cycle processes one claimed Job is confined
\* to that Job: its uncommitted JobRun and Job updates are rolled back, the
\* commits already made for earlier Jobs of the batch are kept, the
\* remaining Jobs of the batch are still processed in the same cycle, and
\* the failed Job remains due so that a later cycle claims it.
C36_PollFailureConfined ==
    [][\A p \in Pollers :
          PollFaultStep(p) =>
             \E b \in batch[p] :
                /\ cur[p] # 0 =>
                      /\ b.job = runs[cur[p]].job_id
                      /\ runs'[cur[p]] = NoRun
                /\ cur'[p] = 0
                /\ jobs' = jobs
                /\ \A r \in RunIds : Visible(r) => runs'[r] = runs[r]
                /\ batch'[p] = batch[p] \ {b}
                /\ ppc'[p] = IF batch'[p] = {} THEN "idle" ELSE "loop"
                /\ b.job \in DueJobs(p)'
      ]_vars

\* ------------------------------------- claims on a run's timestamps
\* C37: in every reachable state a JobRun's timestamps agree with its
\* status: started_at is null exactly while the run is pending, finished_at
\* is null while the run is pending or running (also while a retry attempt
\* is running), and every run in success or failed has both set with
\* started_at <= finished_at.
C37_TimestampsAgreeWithStatus ==
    \A r \in RunIds :
        RunExists(r) =>
            /\ (runs[r].started_at = NULL) <=> (runs[r].status = "pending")
            /\ runs[r].status \in {"pending", "running"} =>
                  runs[r].finished_at = NULL
            /\ runs[r].status \in {"success", "failed"} =>
                  /\ runs[r].started_at # NULL
                  /\ runs[r].finished_at # NULL
                  /\ runs[r].started_at <= runs[r].finished_at

\* ------------------------------------------- claims on a run's progress
\* a pending run with no task in the broker stays pending until its Job is
\* deleted, and no task is ever sent for it
PendingWithoutTaskStays ==
    [][\A r \in RunIds :
          ( /\ RunExists(r)
            /\ runs[r].status = "pending"
            /\ \A t \in queue : t.run_id # r ) =>
             /\ runs'[r].status \in {"pending", "absent"}
             /\ \A t \in queue' : t.run_id # r
      ]_vars

\* C38: every JobRun created by poll_due_jobs or by a run-now request
\* eventually leaves pending and reaches success or failed, provided workers
\* keep taking tasks and the owning Job is not deleted, for every
\* interleaving of the creator's enqueue and commit with the worker's lookup
\* of the JobRun.  A pending run leaves pending only when a worker takes a
\* task that names it, and no step sends a task for a run that is pending,
\* so the claim requires that every committed pending run of an existing
\* Job has its task in the broker.
C38_PendingRunHasTask ==
    \A r \in RunIds :
        (Visible(r) /\ runs[r].status = "pending"
                    /\ JobExists(runs[r].job_id)) =>
            \E t \in queue : t.run_id = r

\* --------------------------------------- claims on the number of attempts
\* retry policies that allow more retries than the task does, without delay
PolicyMany == [max_retries |-> 5, base_delay |-> 0]
PolicyNoMax == [base_delay |-> 0]

\* the requests JobService.create_job is given where the claims are about
\* how many attempts a run gets
BoundInputs ==
    {JobCreate(Cron(1), FailingScript,  PolicyMany,  "active"),
     JobCreate(Cron(1), FailingScript,  PolicyNoMax, "active"),
     JobCreate(Cron(1), FailingScript,  Policy1,     "active"),
     JobCreate(Cron(1), DefaultPayload, EmptyDict,   "active")}

BoundDeployments ==
    {[pollers |-> 1, workers |-> 1, jobs |-> 1,
      runs |-> MaxRuns - 2, run_now |-> MaxRuns - 2, deletes |-> 1,
      updates |-> 1, faults |-> 0, inputs |-> BoundInputs,
      edits |-> UpdateInputs, keys |-> {ApiKey}]}

InitBound ==
    /\ InitStore
    /\ deploy \in BoundDeployments
    /\ spent = NoSpent
    /\ escaped = {}
    /\ se_in = NoCall
    /\ se_out = <<>>
    /\ rp_cfg = EmptyDict
    /\ rp_count = 0
    /\ rp_out = NoOut

SpecBound == InitBound /\ [][Next]_vars

Min(a, b) == IF a <= b THEN a ELSE b

\* 1 + min(max_retries, 3) for the Job of run r
AttemptBound(r) ==
    1 + Min(ClaimedMaxRetries(jobs[runs[r].job_id].retry_policy), 3)

\* the attempts of run r so far: the one under way or waiting in the broker
\* is attempt number retries + 1, and it comes after retry_count failed ones
AttemptsAccounted(r) ==
    /\ \A t \in queue : t.run_id = r => t.retries = runs[r].retry_count
    /\ \A w \in Workers :
          (wpc[w] = "exec" /\ wtask[w].run_id = r) =>
             /\ wtask[w].retries = runs[r].retry_count
             /\ \A t \in queue : t.run_id # r
    /\ Cardinality({t \in queue : t.run_id = r}) <= 1

\* C39: retry is bounded: for every JobRun the number of execution attempts
\* never exceeds 1 + min(max_retries, 3), where max_retries is the Job's
\* configured value and 3 is the task's own retry limit, so retry_count
\* never exceeds that bound and a run that has failed that many times stays
\* failed with no further attempt scheduled.
C39_RetryIsBounded ==
    \A r \in RunIds :
        RunExists(r) =>
            /\ AttemptsAccounted(r)
            /\ runs[r].retry_count <= AttemptBound(r)
            /\ \A t \in queue : t.run_id = r => t.retries + 1 <= AttemptBound(r)
            /\ \A w \in Workers :
                  (wpc[w] = "exec" /\ wtask[w].run_id = r) =>
                     wtask[w].retries + 1 <= AttemptBound(r)
            /\ runs[r].retry_count = AttemptBound(r) =>
                  /\ runs[r].status = "failed"
                  /\ \A t \in queue : t.run_id # r

\* a run of a Job that allows five retries has failed four times and no
\* further attempt is scheduled: the task's own limit was the smaller one
C39_Witness ==
    \E r \in RunIds :
        /\ RunExists(r)
        /\ ClaimedMaxRetries(jobs[runs[r].job_id].retry_policy) = 5
        /\ runs[r].status = "failed"
        /\ runs[r].retry_count = 4
        /\ \A t \in queue : t.run_id # r

\* ------------------------------------------------ claims on Job.last_run
\* C40: Job.last_run never decreases: under every interleaving of poller
\* claims (which set it to the poll instant) and worker success commits
\* (which set it to the finished run's started_at), each write of last_run
\* is at or after the value it replaces.
C40_LastRunNeverDecreases ==
    [][\A j \in JobIds :
          ( /\ JobExists(j)
            /\ jobs'[j].status # "absent"
            /\ jobs[j].last_run # NULL ) =>
             jobs'[j].last_run >= jobs[j].last_run
      ]_vars

====
